---- MODULE Spec2Model ----
(***************************************************************************)
(* Model of the DeepAI proxy server: the Express handlers (server.js, kept  *)
(* as src/unnamed/part_000), the DeepAIAPI client (src/api/deepai.js) and   *)
(* the CookieManager (src/utils/cookieManager.js).                          *)
(*                                                                         *)
(* Every asynchronous function is cut at its awaits: one action is the code *)
(* that runs between two awaits of one request.  Process 0 is the           *)
(* app.listen callback, processes 1..MaxReq are HTTP requests.              *)
(*                                                                         *)
(* Credential values are numbered by the acquisition that produced them:    *)
(* generation 1 is what an earlier run of the server left in data/, and     *)
(* Generation(p, n) is what the n-th acquisition of process p reads from    *)
(* the page.                                                               *)
(***************************************************************************)
EXTENDS Integers, Sequences, FiniteSets, TLC

\* Number of HTTP requests the server receives (besides the listen callback).
MaxReq == 2
\* Longest chat history a caller sends.
MaxHist == 2
\* Number of browser acquisitions the concurrent specification follows.
MaxAcq == 2
\* Largest number of cookies in the file areCookiesValid() reads.
MaxCookies == 2

\* The fallback API key literal of getApiKey / initialize.
DefaultKey == -1

VARIABLES
  pc,          \* where each request is suspended (the await it waits on)
  req,         \* the request body each process was given
  loc,         \* each process's local variables
  session,     \* the browser session of each process's current acquisition
  launches,    \* number of browser sessions each process has opened
  fetches,     \* number of upstream requests each process has issued
  sent,        \* the upstream request each process issued
  reply,       \* the upstream reply each process got
  resp,        \* the HTTP response each process gave its caller
  instances,   \* every DeepAIAPI object constructed so far
  apiInstance, \* the global apiInstance: index into instances, 0 for null
  cookieFile,  \* data/cookies.json
  keyFile,     \* data/apikey.txt
  jar,         \* data/cookies.json as areCookiesValid() reads it, expiries included
  now,         \* Date.now() / 1000 at the call of areCookiesValid()
  valid        \* what areCookiesValid() returned

\* The state of the server, and the state of a call of areCookiesValid().
serverVars == <<pc, req, loc, session, launches, fetches, sent, reply, resp,
                instances, apiInstance, cookieFile, keyFile>>

validityVars == <<jar, now, valid>>

vars == <<serverVars, validityVars>>

Procs == 0..MaxReq
Requests == 1..MaxReq

----------------------------------------------------------------------------
(* Values *)

\* JavaScript undefined for a body field.
Undefined == "<undefined>"

\* Cookie sets: 0 is none (no file / this.cookies undefined), g >= 1 the
\* cookies of generation g.  A cookie file can also hold text that is not
\* JSON.
NoCookies == 0
CorruptFile == -2

Turns == { [role |-> "user", content |-> "a"],
           [role |-> "assistant", content |-> "b"] }

RECURSIVE SeqsUpTo(_, _)
SeqsUpTo(S, n) ==
  IF n = 0 THEN { <<>> }
  ELSE LET shorter == SeqsUpTo(S, n - 1)
       IN  shorter \cup { Append(s, x) : s \in { t \in shorter : Len(t) = n - 1 }, x \in S }

Histories == SeqsUpTo(Turns, MaxHist)

Messages == { Undefined, "", "hi" }

ForwardKinds == { "chat", "message", "continue" }

NoBody == [kind |-> "none", message |-> Undefined, hasHistory |-> FALSE,
           history |-> <<>>, autoExtract |-> FALSE]

\* new DeepAIAPI(null, {useCookies: true, autoRefreshCookies: false})
NewInstance == [apiKey |-> 0, hdrKey |-> 0, cookies |-> NoCookies, initDone |-> FALSE]

\* The acquisition a process runs: who called refreshCookies, its
\* autoExtract option, the cookies and key read from the page, whether the
\* try block reached its return, whether refreshCookies threw.
NoAcq == [caller |-> "none", auto |-> FALSE, cookies |-> NoCookies, key |-> 0,
          success |-> FALSE, threw |-> FALSE]

\* The credentials as they were when POST /refresh-cookies called
\* api.refreshCookies: the files and the fields of the instance.
NoSnap == [taken |-> FALSE, cookieFile |-> NoCookies, keyFile |-> 0,
           cookies |-> NoCookies, apiKey |-> 0, hdrKey |-> 0, initDone |-> FALSE]

\* api: the handler's const api; inst: the instance whose initialize() the
\* process runs; phase: before or after the handler of /refresh-cookies
\* dropped the global instance; chatHistory: the array passed to chat();
\* nth: the acquisitions the process has started.
NoLocals == [api |-> 0, inst |-> 0, phase |-> "pre", chatHistory |-> <<>>,
             nth |-> 0, acq |-> NoAcq, snap |-> NoSnap]

\* The credential generation the n-th acquisition of process p reads.
Generation(p, n) == 1 + 3 * p + n

NoSent == [issued |-> FALSE, chatHistory |-> <<>>, apiKey |-> 0, cookie |-> NoCookies,
           initDone |-> FALSE]

NoReply == [arrived |-> FALSE, complete |-> FALSE, status |-> 0, body |-> <<>>]

NoResp == [status |-> 0, error |-> "", message |-> <<>>, usage |-> "",
           suggestion |-> <<>>, value |-> <<>>, isPlainText |-> FALSE]

----------------------------------------------------------------------------
(* Strings.  A string the code searches or builds is a sequence of tokens;  *)
(* String.prototype.includes is a search for a contiguous run of tokens.    *)

Includes(s, pat) ==
  \E i \in 0..(Len(s) - Len(pat)) : SubSeq(s, i + 1, i + Len(pat)) = pat

\* `Authentication error! status: ${status}. Cerezleri manuel yenileyin: npm run cookies:refresh`
AuthMessage(status) ==
  <<"Authentication", "error", "!", "status:", ToString(status), ".",
    "Cerezleri", "manuel", "yenileyin:", "npm", "run", "cookies:refresh">>

\* `HTTP error! status: ${status}, body: ${errorText}`
HttpMessage(status, errorText) ==
  <<"HTTP", "error", "!", "status:", ToString(status), ",", "body:">> \o errorText

\* The messages of the errors fetch() and response.text() reject with.
FetchFailedMessage == <<"fetch", "failed">>
BodyFailedMessage == <<"terminated">>

\* JSON.stringify of one chat turn and of an array of turns.
StringifyTurn(t) ==
  <<"{", "role", ":", t.role, ",", "content", ":", t.content, "}">>

RECURSIVE StringifyTurns(_)
StringifyTurns(h) ==
  IF h = <<>> THEN <<>>
  ELSE IF Len(h) = 1 THEN StringifyTurn(h[1])
  ELSE StringifyTurn(h[1]) \o <<",">> \o StringifyTurns(Tail(h))

Stringify(h) == <<"[">> \o StringifyTurns(h) \o <<"]">>

\* What a JSON parser reads back from the chatHistory form field.
RECURSIVE ParseTurns(_)
ParseTurns(toks) ==
  IF Len(toks) < 9 THEN <<>>
  ELSE <<[role |-> toks[4], content |-> toks[8]]>>
         \o ParseTurns(SubSeq(toks, 11, Len(toks)))

ParseHistory(toks) == ParseTurns(SubSeq(toks, 2, Len(toks) - 1))

\* JSON.parse of a response body: the bodies that parse are one string
\* literal or an object with one string member.
JsonScalars == { "hi", "ok" }

JsonParses(body) ==
  \/ Len(body) = 1 /\ body[1] \in JsonScalars
  \/ Len(body) = 5 /\ body[1] = "{" /\ body[3] = ":" /\ body[5] = "}"
       /\ body[4] \in JsonScalars

JsonValue(body) ==
  IF Len(body) = 1 THEN body ELSE <<body[2], body[4]>>

----------------------------------------------------------------------------
(* DeepAIAPI.chat: the pure parts *)

\* The new turn alone: the spread of chatHistory left out.
FullHistory_newTurnOnly(chatHistory, message) ==
  <<[role |-> "user", content |-> message]>>

\* const fullHistory = [...chatHistory, { role: 'user', content: message }]
FullHistory(chatHistory, message) ==
  Append(chatHistory, [role |-> "user", content |-> message])

\* The caller's array after chat() built fullHistory from it: the spread
\* copies, the argument is left as it was.
HistoryAfterCall(chatHistory, message) == chatHistory

\* getCookieHeader(): '' when this.cookies is undefined or empty.
CookieHeader(inst) == inst.cookies

\* response.ok
Ok(status) == status >= 200 /\ status <= 299

AuthStatus(status) == status = 401 \/ status = 403 \/ status = 429

\* chat() without the inner try: JSON.parse's SyntaxError leaves chat().
ChatOutcome_noFallback(r) ==
  IF ~r.arrived THEN
    [threw |-> TRUE, message |-> FetchFailedMessage, value |-> <<>>, isPlainText |-> FALSE]
  ELSE IF ~r.complete THEN
    [threw |-> TRUE, message |-> BodyFailedMessage, value |-> <<>>, isPlainText |-> FALSE]
  ELSE IF ~Ok(r.status) THEN
    IF AuthStatus(r.status) THEN
      [threw |-> TRUE, message |-> AuthMessage(r.status), value |-> <<>>, isPlainText |-> FALSE]
    ELSE
      [threw |-> TRUE, message |-> HttpMessage(r.status, r.body), value |-> <<>>,
       isPlainText |-> FALSE]
  ELSE IF JsonParses(r.body) THEN
    [threw |-> FALSE, message |-> <<>>, value |-> JsonValue(r.body), isPlainText |-> FALSE]
  ELSE
    [threw |-> TRUE, message |-> <<"Unexpected", "token">>, value |-> <<>>,
     isPlainText |-> FALSE]

\* What chat() does with the upstream's answer: the value it returns or the
\* message of the error it throws.
ChatOutcome(r) ==
  IF ~r.arrived THEN
    [threw |-> TRUE, message |-> FetchFailedMessage, value |-> <<>>, isPlainText |-> FALSE]
  ELSE IF ~r.complete THEN
    [threw |-> TRUE, message |-> BodyFailedMessage, value |-> <<>>, isPlainText |-> FALSE]
  ELSE IF ~Ok(r.status) THEN
    IF AuthStatus(r.status) THEN
      [threw |-> TRUE, message |-> AuthMessage(r.status), value |-> <<>>, isPlainText |-> FALSE]
    ELSE
      [threw |-> TRUE, message |-> HttpMessage(r.status, r.body), value |-> <<>>,
       isPlainText |-> FALSE]
  ELSE IF JsonParses(r.body) THEN
    [threw |-> FALSE, message |-> <<>>, value |-> JsonValue(r.body), isPlainText |-> FALSE]
  ELSE
    [threw |-> FALSE, message |-> <<>>, value |-> r.body, isPlainText |-> TRUE]

----------------------------------------------------------------------------
(* The route handlers: the pure parts *)

Falsy(v) == v = Undefined \/ v = ""

\* The guard as message === undefined, which lets an empty message pass.
Rejected_undefinedOnly(b) ==
  IF b.kind = "continue" THEN b.message = Undefined \/ ~b.hasHistory
  ELSE b.message = Undefined

\* The 400 guard of /chat, /message and /continue.
Rejected(b) ==
  IF b.kind = "continue" THEN Falsy(b.message) \/ ~b.hasHistory
  ELSE Falsy(b.message)

UsageHint(kind) ==
  IF kind = "chat" THEN "POST /chat { message, chatHistory, options }"
  ELSE IF kind = "message" THEN "POST /message { message, options }"
  ELSE "POST /continue { message, history, options }"

RequiredError(kind) ==
  IF kind = "continue" THEN "Message and history are required" ELSE "Message is required"

FailedError(kind) ==
  IF kind = "chat" THEN "Chat failed"
  ELSE IF kind = "message" THEN "Message failed"
  ELSE "Continue chat failed"

Suggestion == <<"Run:", "npm", "run", "cookies:refresh">>

BadRequest(kind) ==
  [NoResp EXCEPT !.status = 400, !.error = RequiredError(kind), !.usage = UsageHint(kind)]

\* The test with only the 401 pattern.
LooksLikeAuthError_only401(message) ==
  Includes(message, <<"status:", "401">>)

\* The catch block's test for an authentication error.
LooksLikeAuthError(message) ==
  \/ Includes(message, <<"Authentication", "error">>)
  \/ Includes(message, <<"status:", "401">>)
  \/ Includes(message, <<"status:", "403">>)
  \/ Includes(message, <<"status:", "429">>)

\* The response a forwarding handler gives for the outcome of api.chat().
RouteResponse(kind, o) ==
  IF ~o.threw THEN
    [NoResp EXCEPT !.status = 200, !.value = o.value, !.isPlainText = o.isPlainText]
  ELSE IF LooksLikeAuthError(o.message) THEN
    [NoResp EXCEPT !.status = 401, !.error = "Authentication failed",
                   !.message = o.message, !.suggestion = Suggestion]
  ELSE
    [NoResp EXCEPT !.status = 500, !.error = FailedError(kind), !.message = o.message]

\* The chatHistory argument the handler passes to chat().
HistoryArgument(b) ==
  IF b.kind = "message" THEN <<>>
  ELSE IF b.hasHistory THEN b.history ELSE <<>>

----------------------------------------------------------------------------
(* The upstream and the request bodies the model draws from *)

Statuses == { 200, 401, 403, 429, 500 }

Bodies == { <<"{", "output", ":", "hi", "}">>,
            <<"plain", "text">>,
            <<"bad", "status:", "429">> }

\* fetch() rejects; or the status line arrives and response.text() rejects;
\* or the whole reply arrives.
Replies ==
  { NoReply }
    \cup { [arrived |-> TRUE, complete |-> FALSE, status |-> s, body |-> <<>>] :
             s \in Statuses }
    \cup { [arrived |-> TRUE, complete |-> TRUE, status |-> s, body |-> b] :
             s \in Statuses, b \in Bodies }

ChatBodies ==
  { [kind |-> "chat", message |-> m, hasHistory |-> FALSE, history |-> <<>>,
     autoExtract |-> FALSE] : m \in Messages }
    \cup { [kind |-> "chat", message |-> m, hasHistory |-> TRUE, history |-> h,
            autoExtract |-> FALSE] : m \in Messages, h \in Histories }

MessageBodies ==
  { [kind |-> "message", message |-> m, hasHistory |-> FALSE, history |-> <<>>,
     autoExtract |-> FALSE] : m \in Messages }

ContinueBodies ==
  { [kind |-> "continue", message |-> m, hasHistory |-> FALSE, history |-> <<>>,
     autoExtract |-> FALSE] : m \in Messages }
    \cup { [kind |-> "continue", message |-> m, hasHistory |-> TRUE, history |-> h,
            autoExtract |-> FALSE] : m \in Messages, h \in Histories }

ForwardBodies == ChatBodies \cup MessageBodies \cup ContinueBodies

\* The bodies and replies of the specification that runs requests
\* concurrently: one of each class.
FewBodies ==
  { b \in ForwardBodies :
      /\ b.message = "hi"
      /\ b.history = <<>>
      /\ b.hasHistory = (b.kind = "continue") }

FewReplies ==
  { r \in Replies :
      \/ ~r.arrived
      \/ r.complete /\ r.status = 429 /\ r.body = <<"plain", "text">> }

RefreshBodies ==
  { [kind |-> "refresh", message |-> Undefined, hasHistory |-> FALSE, history |-> <<>>,
     autoExtract |-> a] : a \in BOOLEAN }

FewRefreshBodies == { b \in RefreshBodies : b.autoExtract }

StartupBody == [NoBody EXCEPT !.kind = "startup"]

----------------------------------------------------------------------------
(* CookieManager.areCookiesValid *)

\* A cookie as JSON.parse gives it: with or without an expires member.
\* Expiries and times are whole seconds.
Expiries == -1..4

Cookies ==
  { [hasExpires |-> FALSE, expires |-> 0] }
    \cup { [hasExpires |-> TRUE, expires |-> e] : e \in Expiries }

\* data/cookies.json: absent, not JSON, or an array of cookies.
AbsentJar == [state |-> "absent", cookies |-> <<>>]

Jars ==
  { AbsentJar, [state |-> "corrupt", cookies |-> <<>>] }
    \cup { [state |-> "json", cookies |-> c] : c \in SeqsUpTo(Cookies, MaxCookies) }

\* Date.now() / 1000
Times == { 2, 3 }

\* areCookiesValid() has not been called.
NoVerdict == [returned |-> FALSE, value |-> FALSE]

NotAsked == jar = AbsentJar /\ now = 0 /\ valid = NoVerdict

\* !cookie.expires: the member is missing, or it is 0.
NoExpires(cookie) == ~cookie.hasExpires \/ cookie.expires = 0

\* The callback of cookies.every().
CookieValid(cookie, t) == NoExpires(cookie) \/ cookie.expires > t

\* loadCookies() of the file j: true when it returns an array.
Loaded(j) == j.state = "json"

\* The value areCookiesValid() returns for the file j at time t.
AreCookiesValidResult(j, t) ==
  IF ~Loaded(j) \/ Len(j.cookies) = 0 THEN FALSE
  ELSE \A i \in 1..Len(j.cookies) : CookieValid(j.cookies[i], t)

----------------------------------------------------------------------------
(* State *)

\* The state when the server starts with one of the given pairs of files in
\* data/.
Start(files) ==
  /\ pc = [p \in Procs |-> "idle"]
  /\ req = [p \in Procs |-> NoBody]
  /\ loc = [p \in Procs |-> NoLocals]
  /\ session = [p \in Procs |-> "none"]
  /\ launches = [p \in Procs |-> 0]
  /\ fetches = [p \in Procs |-> 0]
  /\ sent = [p \in Procs |-> NoSent]
  /\ reply = [p \in Procs |-> NoReply]
  /\ resp = [p \in Procs |-> NoResp]
  /\ instances = <<>>
  /\ apiInstance = 0
  /\ \E f \in files : cookieFile = f[1] /\ keyFile = f[2]

\* data/ as an earlier run can have left it: each file absent or written,
\* cookies.json possibly not JSON.
AnyFiles == { NoCookies, CorruptFile, 1 } \X { 0, 1 }

\* A first start (no files) and a later one (both files).
FewFiles == { <<NoCookies, 0>>, <<1, 1>> }

Init == Start(FewFiles) /\ NotAsked

InitOne == Start(AnyFiles) /\ NotAsked

\* Requests are numbered in the order they arrive, and none arrives before
\* the listen callback has run.
Arrives(p) ==
  /\ p \in Requests
  /\ pc[p] = "idle"
  /\ pc[0] # "idle"
  /\ p > 1 => pc[p - 1] # "idle"

----------------------------------------------------------------------------
(* initializeAPI and DeepAIAPI.initialize *)

\* initializeAPI() constructing an instance until one has been initialized.
EnterInitializeAPI_untilReady(p, l, insts, cur) ==
  IF cur = 0 \/ ~insts[cur].initDone THEN
    /\ instances' = Append(insts, NewInstance)
    /\ apiInstance' = Len(insts) + 1
    /\ loc' = [loc EXCEPT ![p] = [l EXCEPT !.inst = Len(insts) + 1]]
    /\ pc' = [pc EXCEPT ![p] = "init_loadKey"]
  ELSE
    /\ instances' = insts
    /\ apiInstance' = cur
    /\ loc' = [loc EXCEPT ![p] = [l EXCEPT !.api = cur]]
    /\ pc' = [pc EXCEPT ![p] = "resume"]

\* initializeAPI() up to its first await, called by process p whose locals
\* are l, with the instances insts and the global apiInstance cur.
EnterInitializeAPI(p, l, insts, cur) ==
  IF cur = 0 THEN
    /\ instances' = Append(insts, NewInstance)
    /\ apiInstance' = Len(insts) + 1
    /\ loc' = [loc EXCEPT ![p] = [l EXCEPT !.inst = Len(insts) + 1]]
    /\ pc' = [pc EXCEPT ![p] = "init_loadKey"]
  ELSE
    /\ instances' = insts
    /\ apiInstance' = cur
    /\ loc' = [loc EXCEPT ![p] = [l EXCEPT !.api = cur]]
    /\ pc' = [pc EXCEPT ![p] = "resume"]

\* The locals of a process that enters CookieManager.refreshCookies.
BeginAcquire(l, caller, auto) ==
  [l EXCEPT !.nth = @ + 1,
            !.acq = [NoAcq EXCEPT !.caller = caller, !.auto = auto]]

\* loadCookies(): null when the file is absent or does not parse.
LoadCookies(file) == IF file = CorruptFile THEN NoCookies ELSE file

\* The app.listen callback.
Startup ==
  /\ pc[0] = "idle"
  /\ req' = [req EXCEPT ![0] = StartupBody]
  /\ EnterInitializeAPI(0, NoLocals, instances, apiInstance)
  /\ UNCHANGED <<session, launches, fetches, sent, reply, resp, cookieFile, keyFile>>
  /\ UNCHANGED validityVars

\* initialize(): getApiKey() -> loadApiKey() has read data/apikey.txt.
InitLoadKey(p) ==
  /\ pc[p] = "init_loadKey"
  /\ LET i == loc[p].inst IN
     IF keyFile # 0 THEN
       /\ instances' = [instances EXCEPT ![i].apiKey = keyFile, ![i].hdrKey = keyFile]
       /\ pc' = [pc EXCEPT ![p] = "init_loadCookies"]
       /\ UNCHANGED loc
     ELSE
       /\ loc' = [loc EXCEPT ![p] = BeginAcquire(loc[p], "getApiKey", TRUE)]
       /\ pc' = [pc EXCEPT ![p] = "acq_connect"]
       /\ UNCHANGED instances
  /\ UNCHANGED <<req, session, launches, fetches, sent, reply, resp, apiInstance,
                 cookieFile, keyFile>>
  /\ UNCHANGED validityVars

\* initialize(): loadCookies() has read data/cookies.json; initialize and
\* initializeAPI return.
InitLoadCookies(p) ==
  /\ pc[p] = "init_loadCookies"
  /\ LET i == loc[p].inst
         c == LoadCookies(cookieFile)
     IN  instances' = [instances EXCEPT
                         ![i].cookies = IF c # NoCookies THEN c ELSE @,
                         ![i].initDone = TRUE]
  /\ loc' = [loc EXCEPT ![p].api = apiInstance]
  /\ pc' = [pc EXCEPT ![p] = "resume"]
  /\ UNCHANGED <<req, session, launches, fetches, sent, reply, resp, apiInstance,
                 cookieFile, keyFile>>
  /\ UNCHANGED validityVars

\* getApiKey() gets the acquisition's result; initialize goes on.
GetApiKeyResume(p) ==
  /\ pc[p] = "acq_done"
  /\ loc[p].acq.caller = "getApiKey"
  /\ LET i == loc[p].inst
         a == loc[p].acq
         key == IF a.success /\ a.key # 0 THEN a.key ELSE DefaultKey
     IN
     IF a.threw THEN
       \* the catch block of initialize
       /\ instances' = [instances EXCEPT
                          ![i].apiKey = IF @ = 0 THEN DefaultKey ELSE @,
                          ![i].hdrKey = IF instances[i].apiKey = 0 THEN DefaultKey ELSE @,
                          ![i].initDone = TRUE]
       /\ loc' = [loc EXCEPT ![p].api = apiInstance, ![p].acq = NoAcq]
       /\ pc' = [pc EXCEPT ![p] = "resume"]
     ELSE
       /\ instances' = [instances EXCEPT ![i].apiKey = key, ![i].hdrKey = key]
       /\ loc' = [loc EXCEPT ![p].acq = NoAcq]
       /\ pc' = [pc EXCEPT ![p] = "init_loadCookies"]
  /\ UNCHANGED <<req, session, launches, fetches, sent, reply, resp, apiInstance,
                 cookieFile, keyFile>>
  /\ UNCHANGED validityVars

\* The listen callback's await initializeAPI() is over.
StartupDone ==
  /\ pc[0] = "resume"
  /\ pc' = [pc EXCEPT ![0] = "done"]
  /\ UNCHANGED <<req, loc, session, launches, fetches, sent, reply, resp, instances,
                 apiInstance, cookieFile, keyFile>>
  /\ UNCHANGED validityVars

----------------------------------------------------------------------------
(* CookieManager.refreshCookies: one browser acquisition *)

\* connect() behind a lock: no browser is launched while another request's
\* session is open.
AcqConnect_locked(p) ==
  /\ pc[p] = "acq_connect"
  /\ \A q \in Procs \ {p} : session[q] # "open"
  /\ \/ /\ session' = [session EXCEPT ![p] = "open"]
        /\ launches' = [launches EXCEPT ![p] = @ + 1]
        /\ pc' = [pc EXCEPT ![p] = "acq_page"]
     \/ /\ pc' = [pc EXCEPT ![p] = "acq_done"]
        /\ UNCHANGED <<session, launches>>
  /\ UNCHANGED <<req, loc, fetches, sent, reply, resp, instances, apiInstance,
                 cookieFile, keyFile>>
  /\ UNCHANGED validityVars

\* connect(): the browser is launched, or connect rejects and the catch
\* block returns the failed result (there is no browser to close).
AcqConnect(p) ==
  /\ pc[p] = "acq_connect"
  /\ \/ /\ session' = [session EXCEPT ![p] = "open"]
        /\ launches' = [launches EXCEPT ![p] = @ + 1]
        /\ pc' = [pc EXCEPT ![p] = "acq_page"]
     \/ /\ pc' = [pc EXCEPT ![p] = "acq_done"]
        /\ UNCHANGED <<session, launches>>
  /\ UNCHANGED <<req, loc, fetches, sent, reply, resp, instances, apiInstance,
                 cookieFile, keyFile>>
  /\ UNCHANGED validityVars

\* page.goto(), page.cookies() and extractApiKey(): the navigation times
\* out or page.cookies() rejects; or the page gives the cookies of a new
\* generation, with its key when autoExtract is on and the page holds one
\* (extractApiKey catches its own errors and returns null).
AcqReadPage(p) ==
  /\ pc[p] = "acq_page"
  /\ \/ \E found \in BOOLEAN :
          /\ loc' = [loc EXCEPT
                       ![p].acq.cookies = Generation(p, loc[p].nth),
                       ![p].acq.key = IF loc[p].acq.auto /\ found
                                      THEN Generation(p, loc[p].nth) ELSE 0]
          /\ pc' = [pc EXCEPT ![p] = "acq_saveCookies"]
     \/ /\ pc' = [pc EXCEPT ![p] = "acq_close"]
        /\ UNCHANGED loc
  /\ UNCHANGED <<req, session, launches, fetches, sent, reply, resp, instances,
                 apiInstance, cookieFile, keyFile>>
  /\ UNCHANGED validityVars

\* saveCookies(cookies): the file is written, or writeFile rejects.
AcqSaveCookies(p) ==
  /\ pc[p] = "acq_saveCookies"
  /\ \/ /\ cookieFile' = loc[p].acq.cookies
        /\ IF loc[p].acq.key # 0 THEN
             /\ pc' = [pc EXCEPT ![p] = "acq_saveKey"]
             /\ UNCHANGED loc
           ELSE
             /\ pc' = [pc EXCEPT ![p] = "acq_close"]
             /\ loc' = [loc EXCEPT ![p].acq.success = TRUE]
     \/ /\ pc' = [pc EXCEPT ![p] = "acq_close"]
        /\ UNCHANGED <<loc, cookieFile>>
  /\ UNCHANGED <<req, session, launches, fetches, sent, reply, resp, instances,
                 apiInstance, keyFile>>
  /\ UNCHANGED validityVars

\* saveApiKey(apiKey): the file is written, or writeFile rejects.
AcqSaveApiKey(p) ==
  /\ pc[p] = "acq_saveKey"
  /\ \/ /\ keyFile' = loc[p].acq.key
        /\ loc' = [loc EXCEPT ![p].acq.success = TRUE]
     \/ UNCHANGED <<loc, keyFile>>
  /\ pc' = [pc EXCEPT ![p] = "acq_close"]
  /\ UNCHANGED <<req, session, launches, fetches, sent, reply, resp, instances,
                 apiInstance, cookieFile>>
  /\ UNCHANGED validityVars

\* browser.close() at the end of the try block instead of in finally.
AcqClose_tryOnly(p) ==
  /\ pc[p] = "acq_close"
  /\ session' = [session EXCEPT ![p] = IF loc[p].acq.success THEN "closed" ELSE @]
  /\ \/ UNCHANGED loc
     \/ loc' = [loc EXCEPT ![p].acq.threw = loc[p].acq.success]
  /\ pc' = [pc EXCEPT ![p] = "acq_done"]
  /\ UNCHANGED <<req, launches, fetches, sent, reply, resp, instances, apiInstance,
                 cookieFile, keyFile>>
  /\ UNCHANGED validityVars

\* The finally block: browser.close() is called on the session, which ends
\* it.  When close() rejects, the rejection leaves refreshCookies in place
\* of the result the try or catch block returned.
AcqClose(p) ==
  /\ pc[p] = "acq_close"
  /\ session' = [session EXCEPT ![p] = "closed"]
  /\ \/ UNCHANGED loc
     \/ loc' = [loc EXCEPT ![p].acq.threw = TRUE]
  /\ pc' = [pc EXCEPT ![p] = "acq_done"]
  /\ UNCHANGED <<req, launches, fetches, sent, reply, resp, instances, apiInstance,
                 cookieFile, keyFile>>
  /\ UNCHANGED validityVars

----------------------------------------------------------------------------
(* The forwarding handlers and DeepAIAPI.chat *)

\* A forwarding handler from the arrival of the request with body b to its
\* first await: the 400 guard, then initializeAPI().
ForwardHandler(p, b) ==
  /\ Arrives(p)
  /\ req' = [req EXCEPT ![p] = b]
  /\ IF Rejected(b) THEN
       /\ resp' = [resp EXCEPT ![p] = BadRequest(b.kind)]
       /\ pc' = [pc EXCEPT ![p] = "done"]
       /\ UNCHANGED <<loc, instances, apiInstance>>
     ELSE
       /\ EnterInitializeAPI(p, [NoLocals EXCEPT !.chatHistory = HistoryArgument(b)],
                             instances, apiInstance)
       /\ UNCHANGED resp
  /\ UNCHANGED <<session, launches, fetches, sent, reply, cookieFile, keyFile>>
  /\ UNCHANGED validityVars

\* The three routes, each given a body among bodies.
PostChat(p, bodies) ==
  \E b \in bodies : b.kind = "chat" /\ ForwardHandler(p, b)

PostMessage(p, bodies) ==
  \E b \in bodies : b.kind = "message" /\ ForwardHandler(p, b)

PostContinue(p, bodies) ==
  \E b \in bodies : b.kind = "continue" /\ ForwardHandler(p, b)

\* api.chat() up to its await of fetch(): the request is built from the
\* instance's headers and cookies as they are now, and is issued.
ChatSend(p) ==
  /\ pc[p] = "resume"
  /\ req[p].kind \in ForwardKinds
  /\ LET api == instances[loc[p].api] IN
       sent' = [sent EXCEPT ![p] =
                  [issued |-> TRUE,
                   chatHistory |-> Stringify(FullHistory(loc[p].chatHistory, req[p].message)),
                   apiKey |-> api.hdrKey,
                   cookie |-> CookieHeader(api),
                   initDone |-> api.initDone]]
  /\ loc' = [loc EXCEPT ![p].chatHistory = HistoryAfterCall(@, req[p].message)]
  /\ fetches' = [fetches EXCEPT ![p] = @ + 1]
  /\ pc' = [pc EXCEPT ![p] = "chat_fetch"]
  /\ UNCHANGED <<req, session, launches, reply, resp, instances, apiInstance,
                 cookieFile, keyFile>>
  /\ UNCHANGED validityVars

\* chat() sending the request once more when the reply is 401, 403 or 429.
ChatReply_resend(p, replies) ==
  /\ pc[p] = "chat_fetch"
  /\ \E r \in replies :
       /\ reply' = [reply EXCEPT ![p] = r]
       /\ IF r.complete /\ AuthStatus(r.status) /\ fetches[p] < 2 THEN
            /\ fetches' = [fetches EXCEPT ![p] = @ + 1]
            /\ UNCHANGED <<resp, pc>>
          ELSE
            /\ resp' = [resp EXCEPT ![p] = RouteResponse(req[p].kind, ChatOutcome(r))]
            /\ pc' = [pc EXCEPT ![p] = "done"]
            /\ UNCHANGED fetches
  /\ UNCHANGED <<req, loc, session, launches, sent, instances, apiInstance,
                 cookieFile, keyFile>>
  /\ UNCHANGED validityVars

\* The handler dropping the global instance when chat() throws.
ChatReply_dropInstance(p, replies) ==
  /\ pc[p] = "chat_fetch"
  /\ \E r \in replies :
       /\ reply' = [reply EXCEPT ![p] = r]
       /\ resp' = [resp EXCEPT ![p] = RouteResponse(req[p].kind, ChatOutcome(r))]
       /\ apiInstance' = IF ChatOutcome(r).threw THEN 0 ELSE apiInstance
  /\ pc' = [pc EXCEPT ![p] = "done"]
  /\ UNCHANGED <<req, loc, session, launches, fetches, sent, instances,
                 cookieFile, keyFile>>
  /\ UNCHANGED validityVars

\* fetch() settles: chat() returns or throws, and the handler responds.
ChatReply(p, replies) ==
  /\ pc[p] = "chat_fetch"
  /\ \E r \in replies :
       /\ reply' = [reply EXCEPT ![p] = r]
       /\ resp' = [resp EXCEPT ![p] = RouteResponse(req[p].kind, ChatOutcome(r))]
  /\ pc' = [pc EXCEPT ![p] = "done"]
  /\ UNCHANGED <<req, loc, session, launches, fetches, sent, instances, apiInstance,
                 cookieFile, keyFile>>
  /\ UNCHANGED validityVars

----------------------------------------------------------------------------
(* POST /refresh-cookies and DeepAIAPI.refreshCookies *)

PostRefresh(p, bodies) ==
  /\ Arrives(p)
  /\ \E b \in bodies :
       /\ req' = [req EXCEPT ![p] = b]
       /\ EnterInitializeAPI(p, NoLocals, instances, apiInstance)
  /\ UNCHANGED <<session, launches, fetches, sent, reply, resp, cookieFile, keyFile>>
  /\ UNCHANGED validityVars

\* api.refreshCookies(options) calls cookieManager.refreshCookies(options).
RefreshCall(p) ==
  /\ pc[p] = "resume"
  /\ req[p].kind = "refresh"
  /\ loc[p].phase = "pre"
  /\ LET api == instances[loc[p].api] IN
       loc' = [loc EXCEPT ![p] =
                 [BeginAcquire(loc[p], "refresh", req[p].autoExtract) EXCEPT
                    !.snap = [taken |-> TRUE, cookieFile |-> cookieFile,
                              keyFile |-> keyFile, cookies |-> api.cookies,
                              apiKey |-> api.apiKey, hdrKey |-> api.hdrKey,
                              initDone |-> api.initDone]]]
  /\ pc' = [pc EXCEPT ![p] = "acq_connect"]
  /\ UNCHANGED <<req, session, launches, fetches, sent, reply, resp, instances,
                 apiInstance, cookieFile, keyFile>>
  /\ UNCHANGED validityVars

RefreshFailed == [NoResp EXCEPT !.status = 500, !.error = "Cookie refresh failed"]

\* refreshCookies assigning this.apiKey without setApiKey: the header keeps
\* the earlier key.
AdoptResult_fieldOnly(inst, a) ==
  [inst EXCEPT !.cookies = a.cookies,
               !.apiKey = IF a.key # 0 THEN a.key ELSE @]

\* The instance after api.refreshCookies() got the successful result a.
AdoptResult(inst, a) ==
  [inst EXCEPT !.cookies = a.cookies,
               !.apiKey = IF a.key # 0 THEN a.key ELSE @,
               !.hdrKey = IF a.key # 0 THEN a.key ELSE @]

\* The acquisition is over: api.refreshCookies() takes the result, and the
\* handler either drops the global instance and calls initializeAPI() again,
\* or answers 500.
RefreshResume(p) ==
  /\ pc[p] = "acq_done"
  /\ loc[p].acq.caller = "refresh"
  /\ LET l == loc[p] IN
     IF ~l.acq.threw /\ l.acq.success THEN
       /\ EnterInitializeAPI(p, [l EXCEPT !.phase = "post"],
                             [instances EXCEPT ![l.api] = AdoptResult(@, l.acq)], 0)
       /\ UNCHANGED resp
     ELSE
       /\ resp' = [resp EXCEPT ![p] = RefreshFailed]
       /\ pc' = [pc EXCEPT ![p] = "done"]
       /\ UNCHANGED <<loc, instances, apiInstance>>
  /\ UNCHANGED <<req, session, launches, fetches, sent, reply, cookieFile, keyFile>>
  /\ UNCHANGED validityVars

\* The re-initialization is over: the handler answers 200.
RefreshRespond(p) ==
  /\ pc[p] = "resume"
  /\ req[p].kind = "refresh"
  /\ loc[p].phase = "post"
  /\ resp' = [resp EXCEPT ![p] =
                [NoResp EXCEPT !.status = 200,
                               !.value = IF loc[p].acq.key # 0 THEN <<"apiKeyFound">>
                                         ELSE <<>>]]
  /\ pc' = [pc EXCEPT ![p] = "done"]
  /\ UNCHANGED <<req, loc, session, launches, fetches, sent, reply, instances,
                 apiInstance, cookieFile, keyFile>>
  /\ UNCHANGED validityVars

----------------------------------------------------------------------------

\* The steps of process p other than the arrival of its request and the
\* upstream's reply.
Step(p) ==
       \/ InitLoadKey(p)
       \/ InitLoadCookies(p)
       \/ GetApiKeyResume(p)
       \/ AcqReadPage(p)
       \/ AcqSaveCookies(p)
       \/ AcqSaveApiKey(p)
       \/ AcqClose(p)
       \/ ChatSend(p)
       \/ RefreshCall(p)
       \/ RefreshResume(p)
       \/ RefreshRespond(p)

\* The number of acquisitions started so far.
RECURSIVE StartedUpTo(_)
StartedUpTo(p) == IF p < 0 THEN 0 ELSE loc[p].nth + StartedUpTo(p - 1)

Acquisitions == StartedUpTo(MaxReq)

\* The server under MaxReq concurrent requests, followed as far as its
\* MaxAcq-th browser acquisition.
Next ==
  \/ Startup
  \/ StartupDone
  \/ \E p \in Procs :
       \/ Step(p)
       \/ (Acquisitions <= MaxAcq /\ AcqConnect(p))
       \/ PostChat(p, FewBodies)
       \/ PostMessage(p, FewBodies)
       \/ PostContinue(p, FewBodies)
       \/ ChatReply(p, FewReplies)
       \/ PostRefresh(p, FewRefreshBodies)

Spec == Init /\ [][Next]_vars

\* The server under one request that races the listen callback only, with
\* every body and every reply.
NextOne ==
  \/ Startup
  \/ StartupDone
  \/ \E p \in 0..1 :
       \/ Step(p)
       \/ AcqConnect(p)
       \/ PostChat(p, ForwardBodies)
       \/ PostMessage(p, ForwardBodies)
       \/ PostContinue(p, ForwardBodies)
       \/ ChatReply(p, Replies)
       \/ PostRefresh(p, RefreshBodies)

SpecOne == InitOne /\ [][NextOne]_vars

\* A call of areCookiesValid(): loadCookies(), then the expiry check.
AreCookiesValid ==
  /\ ~valid.returned
  /\ valid' = [returned |-> TRUE, value |-> AreCookiesValidResult(jar, now)]
  /\ UNCHANGED <<jar, now>>
  /\ UNCHANGED serverVars

\* One call of areCookiesValid() on every cookie file of up to MaxCookies
\* cookies, the server not started.
InitValid ==
  /\ Start({ <<NoCookies, 0>> })
  /\ jar \in Jars
  /\ now \in Times
  /\ valid = NoVerdict

NextValid == AreCookiesValid

SpecValid == InitValid /\ [][NextValid]_vars

----------------------------------------------------------------------------
(* Claims *)

\* The request body b lacks a field its route requires.
LacksField(b) ==
  \/ b.message \in { Undefined, "" }
  \/ b.kind = "continue" /\ ~b.hasHistory

\* The history the caller of process p passed.
CallerHistory(p) ==
  IF req[p].kind # "message" /\ req[p].hasHistory THEN req[p].history ELSE <<>>

Forwarding(p) == req[p].kind \in ForwardKinds

CredentialState == <<instances, apiInstance, cookieFile, keyFile>>

\* C1: a /refresh-cookies request that started on an initialized instance
\* and was answered 500 leaves data/cookies.json, data/apikey.txt and the
\* instance's cookies, API key and api-key header as they were when it
\* called api.refreshCookies.
C1_FailedRefreshLeavesCredentials ==
  \A p \in Requests :
    (req[p].kind = "refresh" /\ pc[p] = "done" /\ resp[p].status = 500
       /\ loc[p].snap.initDone)
      => /\ cookieFile = loc[p].snap.cookieFile
         /\ keyFile = loc[p].snap.keyFile
         /\ instances[loc[p].api].cookies = loc[p].snap.cookies
         /\ instances[loc[p].api].apiKey = loc[p].snap.apiKey
         /\ instances[loc[p].api].hdrKey = loc[p].snap.hdrKey

C3_OtherReplyAnswered500 ==
  \A p \in Requests :
    (Forwarding(p) /\ pc[p] = "done" /\ reply[p].complete
       /\ ~(reply[p].status >= 200 /\ reply[p].status <= 299)
       /\ reply[p].status \notin { 401, 403, 429 })
      => /\ resp[p].status = 500
         /\ Includes(resp[p].message, <<"status:", ToString(reply[p].status)>>)
         /\ Includes(resp[p].message, reply[p].body)

\* C4: a call of chat() issues one upstream request and opens no browser
\* session: from the call to the handler's response, whatever the reply,
\* the process's count of upstream requests stays 1 and no session is
\* opened.
C4_OneRequestNoBrowser ==
  [][\A p \in Requests :
       /\ (Forwarding(p) /\ pc[p] = "resume")
            => (pc'[p] = "resume" /\ fetches'[p] = fetches[p])
               \/ (pc'[p] = "chat_fetch" /\ fetches'[p] = 1
                   /\ launches' = launches /\ session' = session)
       /\ pc[p] = "chat_fetch"
            => /\ pc'[p] \in { "chat_fetch", "done" }
               /\ fetches[p] = 1 /\ fetches'[p] = 1
               /\ launches'[p] = launches[p] /\ session'[p] = session[p]
               /\ pc'[p] = "done" => (launches' = launches /\ session' = session)
       /\ pc[p] = "done" => (pc'[p] = "done" /\ fetches'[p] = fetches[p])
    ]_vars

C4_Witness ==
  \E p \in Requests :
    /\ Forwarding(p) /\ pc[p] = "done"
    /\ reply[p].complete /\ reply[p].status = 403
    /\ fetches[p] = 1 /\ launches[p] = 0

\* C5: every upstream request is issued on an instance whose initialize()
\* has returned.
C5_SentAfterInitialize ==
  \A p \in Requests : sent[p].issued => sent[p].initDone

\* C6: a request that lacks a required field is answered 400 with a usage
\* hint at once: nothing is sent upstream, and the instances, the global
\* instance and the files stay as they are; the answer stands.
C6_MissingFieldAnswered400 ==
  [][\A p \in Requests :
       /\ (pc[p] = "idle" /\ pc'[p] # "idle" /\ req'[p].kind \in ForwardKinds
             /\ LacksField(req'[p]))
            => /\ pc'[p] = "done"
               /\ resp'[p].status = 400
               /\ resp'[p].usage # ""
               /\ fetches'[p] = 0 /\ ~sent'[p].issued
               /\ CredentialState' = CredentialState
       /\ (pc[p] = "done" /\ resp[p].status = 400)
            => (pc'[p] = "done" /\ resp'[p] = resp[p] /\ fetches'[p] = 0)
    ]_vars

C6_Witness ==
  \E p \in Requests :
    /\ req[p].kind = "continue" /\ req[p].message = "hi" /\ ~req[p].hasHistory
    /\ pc[p] = "done" /\ resp[p].status = 400 /\ fetches[p] = 0

\* C7: the chatHistory field of the upstream request reads back as the
\* caller's history followed by one user turn holding the message, and the
\* caller's array is as it was, during and after the call.
C7_HistoryPlusOneTurn ==
  \A p \in Requests :
    sent[p].issued
      => /\ ParseHistory(sent[p].chatHistory)
              = CallerHistory(p) \o <<[role |-> "user", content |-> req[p].message]>>
         /\ Len(ParseHistory(sent[p].chatHistory)) = Len(CallerHistory(p)) + 1
         /\ loc[p].chatHistory = CallerHistory(p)

C7_Witness ==
  \E p \in Requests :
    /\ req[p].kind = "chat" /\ Len(CallerHistory(p)) = MaxHist
    /\ pc[p] = "done" /\ resp[p].status = 500
    /\ Len(ParseHistory(sent[p].chatHistory)) = MaxHist + 1

\* The server holds an instance whose initialize() has returned.
Ready == apiInstance # 0 /\ instances[apiInstance].initDone

\* C8: the steps of a forwarding call (the call of chat() and the arrival
\* of its outcome) leave the instances, the global instance and both files
\* as they are, so a server that is ready stays ready.
C8_ForwardingLeavesCredentials ==
  [][\A p \in Requests :
       (Forwarding(p) /\ pc[p] \in { "resume", "chat_fetch" } /\ pc'[p] # pc[p])
         => /\ CredentialState' = CredentialState
            /\ Ready => Ready'
    ]_vars

C8_Witness ==
  \E p \in Requests :
    /\ Forwarding(p) /\ pc[p] = "done" /\ ~reply[p].arrived
    /\ resp[p].status = 500
    /\ Ready /\ instances[apiInstance].cookies # NoCookies

\* C9: no acquisition is over while its browser session is open: a session
\* is open only between connect() and browser.close().
C9_SessionClosedAtReturn ==
  \A p \in Procs :
    session[p] = "open"
      => pc[p] \in { "acq_page", "acq_saveCookies", "acq_saveKey", "acq_close" }

C9_Witness ==
  \E p \in Procs :
    /\ pc[p] = "acq_done" /\ ~loc[p].acq.success
    /\ launches[p] = 1 /\ session[p] = "closed"
    /\ loc[p].acq.cookies # NoCookies

\* C10: refreshCookies never throws: every acquisition that is over has
\* returned a result.
C10_AcquisitionNeverThrows ==
  \A p \in Procs : pc[p] = "acq_done" => ~loc[p].acq.threw

\* The positions of a process inside CookieManager.refreshCookies.
InAcquisition(p) ==
  pc[p] \in { "acq_connect", "acq_page", "acq_saveCookies", "acq_saveKey", "acq_close" }

\* C11: no step of an acquisition changes data/cookies.json or
\* data/apikey.txt: from the call of refreshCookies to its return the files
\* are left to the caller.
C11_AcquisitionLeavesFiles ==
  [][\A p \in Procs :
       (InAcquisition(p) /\ pc'[p] # pc[p])
         => (cookieFile' = cookieFile /\ keyFile' = keyFile)
    ]_vars

\* No process other than p has opened a browser, so that every write to the
\* files so far is p's.
OnlyAcquirer(p) == \A q \in Procs \ {p} : launches[q] = 0

\* C12: when the only refresh so far has been answered 200, the key in
\* data/apikey.txt and the key of the serving instance are not older than
\* the cookies beside them: the key file is absent or of the generation of
\* data/cookies.json, and the instance's key is the fallback or of the
\* generation of its cookies.
C12_RefreshReplacesWholesale ==
  \A p \in Requests :
    (req[p].kind = "refresh" /\ pc[p] = "done" /\ resp[p].status = 200
       /\ OnlyAcquirer(p))
      => /\ cookieFile \in { Generation(p, n) : n \in 1..2 }
         /\ keyFile \in { 0, cookieFile }
         /\ instances[apiInstance].cookies = cookieFile
         /\ instances[apiInstance].apiKey \in { DefaultKey, cookieFile }

\* C13: refreshes are not serialized and the last writer wins: a request
\* that is about to call connect() can do so whatever sessions the others
\* hold open, a saveCookies or saveApiKey that succeeds leaves its own value
\* in the file whatever the file held, and the files change in no other way.
C13_RefreshesNotSerialized ==
  [][/\ \A p \in Procs : pc[p] = "acq_connect" => ENABLED AcqConnect(p)
     /\ \A p \in Procs :
          /\ (pc[p] = "acq_saveCookies" /\ pc'[p] # pc[p]
                /\ (pc'[p] = "acq_saveKey" \/ loc'[p].acq.success))
               => cookieFile' = loc[p].acq.cookies
          /\ (pc[p] = "acq_saveKey" /\ pc'[p] # pc[p] /\ loc'[p].acq.success)
               => keyFile' = loc[p].acq.key
     /\ cookieFile' # cookieFile
          => \E p \in Procs : pc[p] = "acq_saveCookies" /\ pc'[p] # pc[p]
                                /\ cookieFile' = loc[p].acq.cookies
     /\ keyFile' # keyFile
          => \E p \in Procs : pc[p] = "acq_saveKey" /\ pc'[p] # pc[p]
                                /\ keyFile' = loc[p].acq.key
    ]_vars

\* Two /refresh-cookies requests with their sessions open together: the
\* second has written both files, the first is about to overwrite
\* data/cookies.json.
C13_Witness ==
  /\ req[1].kind = "refresh" /\ req[2].kind = "refresh"
  /\ session[1] = "open" /\ session[2] = "open"
  /\ pc[1] = "acq_saveCookies" /\ pc[2] = "acq_close"
  /\ loc[2].acq.success
  /\ cookieFile = loc[2].acq.cookies /\ keyFile = loc[2].acq.key
  /\ loc[1].acq.cookies # cookieFile

\* C14: areCookiesValid() returns true exactly when the file holds at least
\* one cookie and every cookie has no expires member or one greater than
\* the current time; so it returns false for no cookies, for no file, and
\* when a cookie's expiry is in the past.
C14_ValidIffAllUnexpired ==
  valid.returned
    => (valid.value
          <=> /\ jar.state = "json"
              /\ Len(jar.cookies) > 0
              /\ \A i \in 1..Len(jar.cookies) :
                   \/ ~jar.cookies[i].hasExpires
                   \/ jar.cookies[i].expires > now)

\* C15: a 2xx reply whose body is JSON is handed on as the parsed value (the
\* object body as its member), and a 2xx reply whose body is not JSON is
\* handed on as the raw body marked isPlainText; either way the request is
\* answered 200, not with an error.
C15_OkReplyNormalized ==
  \A p \in Requests :
    (Forwarding(p) /\ pc[p] = "done" /\ reply[p].complete
       /\ reply[p].status >= 200 /\ reply[p].status <= 299)
      => /\ resp[p].status = 200
         /\ resp[p].error = ""
         /\ reply[p].body = <<"{", "output", ":", "hi", "}">>
              => (resp[p].value = <<"output", "hi">> /\ ~resp[p].isPlainText)
         /\ reply[p].body \in { <<"plain", "text">>, <<"bad", "status:", "429">> }
              => (resp[p].value = reply[p].body /\ resp[p].isPlainText)

C15_Witness ==
  \E p \in Requests :
    /\ req[p].kind = "message" /\ pc[p] = "done"
    /\ reply[p].complete /\ reply[p].status = 200
    /\ reply[p].body = <<"bad", "status:", "429">>
    /\ resp[p].status = 200 /\ resp[p].isPlainText

\* C16: initialize() loads the two files independently: a key file that is
\* there is loaded whatever the cookie file is, and when initialize()
\* returns, a cookie file that reads as cookies has been loaded into the
\* instance whatever happened while the key was obtained.
C16_FilesLoadedIndependently ==
  [][\A p \in Procs :
       /\ (pc[p] = "init_loadKey" /\ pc'[p] # pc[p] /\ keyFile # 0)
            => instances'[loc[p].inst].apiKey = keyFile
       /\ (loc[p].inst # 0 /\ pc'[p] # pc[p]
             /\ ~instances[loc[p].inst].initDone /\ instances'[loc[p].inst].initDone
             /\ LoadCookies(cookieFile) # NoCookies)
            => instances'[loc[p].inst].cookies = LoadCookies(cookieFile)
    ]_vars

\* C17: a /refresh-cookies request opens at most one browser session, the
\* acquisition and the re-initialization after it counted together.
C17_RefreshLaunchesOnce ==
  \A p \in Requests : req[p].kind = "refresh" => launches[p] <= 1

\* C18: while no refresh has succeeded, one instance has been constructed
\* at most, one process at most has called initialize() on it, every
\* process that got an instance from initializeAPI() got that one, and the
\* first-use acquisition of getApiKey() has run once at most, in that
\* process.
C18_OneInstanceOneInitialize ==
  (\A p \in Procs : loc[p].phase = "pre")
    => /\ Len(instances) <= 1
       /\ Cardinality({ p \in Procs : loc[p].inst # 0 }) <= 1
       /\ \A p \in Procs :
            /\ loc[p].api \in { 0, apiInstance }
            /\ loc[p].inst = 0 => loc[p].acq.caller # "getApiKey"
            /\ loc[p].inst = 0 => launches[p] <= (IF req[p].kind = "refresh" THEN 1 ELSE 0)
            /\ loc[p].inst # 0 => (loc[p].nth <= 1 /\ launches[p] <= 1)

\* Two requests that arrived while the listen callback's initialize() has
\* its first-use browser open: both hold the callback's instance.
C18_Witness ==
  /\ pc[0] = "acq_page" /\ loc[0].inst = 1
  /\ Len(instances) = 1
  /\ pc[1] = "chat_fetch" /\ loc[1].api = 1
  /\ pc[2] = "resume" /\ loc[2].api = 1

====
